---- MODULE Spec2Model ----
(***************************************************************************)
(* A model of main.py (Pixelmon-like Pygame MVP v5): the session loop of   *)
(* main(), LevelWorld's spawn timers, the Battle state machine,            *)
(* Camera.center_on and the capture-chance formula of Battle.throw_ball.   *)
(*                                                                         *)
(* One key event of the event loop (main.py 506-527) is one action; the    *)
(* update and victory check that end a loop iteration (529-549) are the    *)
(* action Frame.  Any number of key events may precede a Frame, as in      *)
(* pygame.event.get().                                                     *)
(*                                                                         *)
(* Time is counted in units of 200 ms, so that 0.6 s, 0.8 s and 6.0 s are  *)
(* the integers 3, 4 and 30; the arithmetic on dt is exact.                *)
(*                                                                         *)
(* Pixel geometry is kept out of the session: whether the player's rect    *)
(* touches a creature or a bush is an input of the step that asks.  The    *)
(* camera is modelled on its own in SpecCamera, the capture chance on its  *)
(* own in SpecChance, the bush timer on a wide grass level in SpecBush.    *)
(***************************************************************************)
EXTENDS Integers, Sequences, FiniteSets, TLC

VARIABLES
    grid,            \* LevelWorld.grid: rows of biome names
    creatures,       \* CREATURES: biome -> set of species names
    mons,            \* world.mons, in insertion order
    bushes,          \* len(world.bushes)
    respawn_t,       \* world._respawn_t
    bush_t,          \* world._bush_t
    apricorns,       \* player.apricorns
    balls,           \* player.balls
    team,            \* player.team
    caught_species,  \* player.caught_species
    active_index,    \* player.active_index (0-based, as in the code)
    battle,          \* main's battle (NoBattle for None)
    victory,         \* main's victory
    below_all,       \* tick time since len(mons) fell below the target
    below_world,     \* the same, counting only ticks on which the world ran
    cam,             \* the Camera
    limits,          \* the sets the run's inputs are drawn from
    throws,          \* the last two capture chances computed
    moved,           \* whether the last loop iteration moved the player and the creatures
    index_fixed,     \* whether a selection has been confirmed in some battle
    roamer,          \* one Mon's rect and velocity, with what its updates added up to
    dismissed        \* whether a victory overlay has been dismissed with SPACE or ESC

vars == <<grid, creatures, mons, bushes, respawn_t, bush_t, apricorns, balls,
          team, caught_species, active_index, battle, victory,
          below_all, below_world, cam, throws, limits, moved, index_fixed,
          roamer, dismissed>>

Max(a, b) == IF a >= b THEN a ELSE b
Min(a, b) == IF a <= b THEN a ELSE b

(***************************************************************************)
(* Bounds of the model.  A run draws its inputs from the sets of limits,   *)
(* which its initial state fixes.                                          *)
(***************************************************************************)
\* LevelWorld.TARGET_MON_COUNT is 7 in main.py; the model keeps a smaller
\* target so that the creature collection can be enumerated: Target in most
\* runs, RespawnTarget in SpecRespawn.
Target == 1
RespawnTarget == 2
TARGET_MON_COUNT == limits.target
\* A ball is not thrown once the team holds MaxTeam members.
MaxTeam == 2
\* Apricorns are not gained beyond MaxApricorns, balls not crafted beyond MaxBalls.
MaxApricorns == 2
MaxBalls == 3
\* In SpecWorld KeyP is not taken once the world holds WorldMaxMons creatures,
\* and the team holds at most WorldMaxTeam members.
WorldMaxMons == 3
WorldMaxTeam == 1
WorldMaxApricorns == 3
\* In SpecBush the level has BushTiles grass tiles, more than MAX_BUSHES,
\* balls are crafted up to BushMaxBalls and debug spawns go up to BushMaxMons.
BushTiles == 22
BushMaxBalls == 4
BushMaxMons == 2
\* In SpecVictory the team holds at most VictoryMaxTeam members.
VictoryMaxTeam == 2

\* The session of Spec: one species, every roll of the dice, and no debug
\* spawn beyond the target.  Tick lengths are in units of 200 ms.
SessionLimits ==
    [target |-> Target, levels |-> {1}, rolls |-> 2..4, erolls |-> 1..3, draws |-> {0, 400, 999},
     world_dt |-> {15}, battle_dt |-> {3, 15},
     max_mons |-> Target, max_team |-> MaxTeam,
     max_apricorns |-> MaxApricorns, max_balls |-> MaxBalls, max_attacks |-> 0]

\* The session of SpecWorld: debug spawns beyond the target, ticks short
\* and long against the spawn timers, the largest roll of each die.
WorldLimits ==
    [target |-> Target, levels |-> {1}, rolls |-> {4}, erolls |-> {3}, draws |-> {0, 999},
     world_dt |-> {3, 15}, battle_dt |-> {15},
     max_mons |-> WorldMaxMons, max_team |-> WorldMaxTeam,
     max_apricorns |-> WorldMaxApricorns, max_balls |-> MaxBalls, max_attacks |-> 0]

\* The session of SpecRespawn: a target of RespawnTarget creatures, so that
\* an encounter can go on while the world is short of one.
RespawnLimits ==
    [target |-> RespawnTarget, levels |-> {1}, rolls |-> {4}, erolls |-> {3},
     draws |-> {0, 999}, world_dt |-> {3, 15}, battle_dt |-> {15},
     max_mons |-> RespawnTarget, max_team |-> WorldMaxTeam,
     max_apricorns |-> MaxApricorns, max_balls |-> MaxBalls, max_attacks |-> 0]

\* The session of SpecBush: no ball is thrown, so the team stays empty and
\* only the bushes, the timers, the apricorns and the crafted balls move.
BushLimits ==
    [target |-> Target, levels |-> {1}, rolls |-> {4}, erolls |-> {3}, draws |-> {0, 999},
     world_dt |-> {3, 15}, battle_dt |-> {15},
     max_mons |-> BushMaxMons, max_team |-> 0,
     max_apricorns |-> WorldMaxApricorns, max_balls |-> BushMaxBalls, max_attacks |-> 0]

\* The session of SpecVictory: species tables with and without an entry for
\* each biome of the level.
VictoryLimits ==
    [target |-> Target, levels |-> {1}, rolls |-> {4}, erolls |-> {3}, draws |-> {0, 999},
     world_dt |-> {15}, battle_dt |-> {15},
     max_mons |-> Target, max_team |-> VictoryMaxTeam,
     max_apricorns |-> MaxApricorns, max_balls |-> MaxBalls, max_attacks |-> 0]

\* In SpecAttack the attacks of a battle are counted up to MaxAttacks, and
\* the team holds at most AttackMaxTeam members.
MaxAttacks == 11
AttackMaxTeam == 1

\* The session of SpecAttack: every roll of the dice, every capture a
\* success, creatures of two levels, and the battle's attacks counted.
AttackLimits ==
    [target |-> Target, levels |-> {1, 3}, rolls |-> 2..4, erolls |-> 1..3, draws |-> {0},
     world_dt |-> {15}, battle_dt |-> {15},
     max_mons |-> Target, max_team |-> AttackMaxTeam,
     max_apricorns |-> MaxApricorns, max_balls |-> MaxBalls, max_attacks |-> MaxAttacks]

(***************************************************************************)
(* Program constants.                                                      *)
(***************************************************************************)
TILE == 30
RESPAWN_INTERVAL == 30
BUSH_RESPAWN_SEC == 30
MAX_BUSHES == 20
INITIAL_BUSHES == 10
ATTACK_COOLDOWN == 3
BALL_COOLDOWN == 4
INITIAL_BALLS == 3
CRAFT_COST == 3
MAX_LEVEL == 10

Biomes == {"grass", "water", "sand"}

(***************************************************************************)
(* load_creatures: the species table and ALL_SPECIES.                      *)
(***************************************************************************)
\* all_species = sorted({c["name"] for b in creatures.values() for c in b})
ALL_SPECIES(c) == UNION {c[b] : b \in Biomes}

(***************************************************************************)
(* Mon and LevelWorld.                                                     *)
(***************************************************************************)
\* Mon.__init__: max_hp = 10 + level * 3; hp = max_hp
MonInit(name, level, biome) ==
    [name |-> name, level |-> level, biome |-> biome,
     max_hp |-> 10 + level * 3, hp |-> 10 + level * 3]

Tiles(g) == (1..Len(g[1])) \X (1..Len(g))

\* options = self.creatures.get(biome, []); "Critter" if not options
SpeciesAt(c, biome) == IF c[biome] = {} THEN {"Critter"} ELSE c[biome]

\* LevelWorld.spawn_mon: every creature it can return.  The tile is any
\* tile of the level (random, or near the player, who may stand anywhere).
spawn_mon(g, c) ==
    UNION { { MonInit(n, l, g[t[2]][t[1]]) :
                n \in SpeciesAt(c, g[t[2]][t[1]]), l \in limits.levels }
            : t \in Tiles(g) }

\* while len(self.mons) < self.TARGET_MON_COUNT: self.mons.add(self.spawn_mon(..))
RECURSIVE Replenished(_, _, _)
Replenished(ms, g, c) ==
    IF Len(ms) < TARGET_MON_COUNT
      THEN UNION { Replenished(Append(ms, m), g, c) : m \in spawn_mon(g, c) }
      ELSE {ms}

\* The candidate tiles of _spawn_bush: grass tiles of the upper rows.
BushRows(g) == IF Len(g) > 3 THEN Len(g) \div 3 ELSE Len(g)
GrassSlots(g) ==
    Cardinality({t \in Tiles(g) : t[2] <= BushRows(g) /\ g[t[2]][t[1]] = "grass"})

\* LevelWorld._spawn_bush: a bush is appended on a free grass tile, or, when
\* the 200 random candidates all miss, nothing happens.
spawn_bush(b, g) == IF b < GrassSlots(g) THEN {b, b + 1} ELSE {b}

\* for _ in range(10): self._spawn_bush()
RECURSIVE InitialBushes(_, _, _)
InitialBushes(k, b, g) ==
    IF k = 0 THEN {b}
    ELSE UNION { InitialBushes(k - 1, b2, g) : b2 \in spawn_bush(b, g) }

\* A faulty timers_update: the bush cap is not looked at.
BushRegrow_NoCap(b, g) == spawn_bush(b, g)

\* timers_update, the bush half: if len(self.bushes) < self.MAX_BUSHES: self._spawn_bush()
BushRegrow(b, g) == IF b < MAX_BUSHES THEN spawn_bush(b, g) ELSE {b}

\* A faulty timers_update: "while len(self.mons) <= TARGET_MON_COUNT".
MonRespawn_OneMore(ms, g, c) ==
    IF Len(ms) <= TARGET_MON_COUNT
      THEN {Append(r, m) : r \in Replenished(ms, g, c), m \in spawn_mon(g, c)}
      ELSE {ms}

\* A faulty timers_update: "while len(self.mons) > TARGET_MON_COUNT", a loop
\* that never runs when the world is short.
MonRespawn_None(ms, g, c) == {ms}

\* timers_update, the creature half, once the respawn timer has fired.
MonRespawn(ms, g, c) == Replenished(ms, g, c)

RemoveAt(s, i) == SubSeq(s, 1, i - 1) \o SubSeq(s, i + 1, Len(s))

(***************************************************************************)
(* Player.                                                                 *)
(***************************************************************************)
\* Player.get_active_mon: self.active_index = max(0, min(self.active_index, len(self.team)-1))
ClampActive(ai, tm) == IF tm = <<>> THEN ai ELSE Max(0, Min(ai, Len(tm) - 1))

(***************************************************************************)
(* Battle.throw_ball: the capture chance, as the fraction num / den.       *)
(*   hp_ratio      = max(0.05, hp / max_hp)                                *)
(*   base          = 0.5 * (1.0 - hp_ratio)                                *)
(*   level_penalty = max(0.1, 1.0 - (level-1)*0.05)                        *)
(*   chance        = base * level_penalty + 0.15                           *)
(* With hp_ratio = HpRatio20 / (20*max_hp) and level_penalty = Penalty20/20*)
(* chance = ((20*max_hp - HpRatio20) * Penalty20 + 120*max_hp)/(800*max_hp)*)
(***************************************************************************)
HpRatio20(hp, max_hp) == Max(max_hp, 20 * hp)

\* A faulty level penalty: 1.0 + (level-1)*0.05.
Penalty20_Plus(level) == Max(2, 20 + (level - 1))

Penalty20(level) == Max(2, 20 - (level - 1))

\* A faulty base: 0.5 * hp_ratio.
ChanceNum_Ratio(level, hp, max_hp) ==
    HpRatio20(hp, max_hp) * Penalty20(level) + 120 * max_hp

ChanceNum(level, hp, max_hp) ==
    (20 * max_hp - HpRatio20(hp, max_hp)) * Penalty20(level) + 120 * max_hp
ChanceDen(max_hp) == 800 * max_hp

\* random.random() < chance, for a draw of r thousandths
Caught(r, level, hp, max_hp) ==
    r * ChanceDen(max_hp) < 1000 * ChanceNum(level, hp, max_hp)

ThrowRecord(level, hp, max_hp) ==
    [level |-> level, hp |-> hp, max_hp |-> max_hp,
     num |-> ChanceNum(level, hp, max_hp), den |-> ChanceDen(max_hp)]

(***************************************************************************)
(* Camera.                                                                 *)
(***************************************************************************)
\* Camera.__init__
CameraInit(map_w_tiles, map_h_tiles, viewport_w, viewport_h) ==
    [w_px |-> map_w_tiles * TILE, h_px |-> map_h_tiles * TILE,
     vw |-> viewport_w, vh |-> viewport_h, x |-> 0, y |-> 0]

\* A faulty center_on: the origin is not floored at 0.
CenterAxis_NoFloor(center, view, world) ==
    Min(center - (view \div 2), world - view)

\* Camera.center_on, one axis: max(0, min(center - view//2, world - view))
CenterAxis(center, view, world) ==
    Max(0, Min(center - (view \div 2), world - view))

\* Camera.center_on(rect)
center_on(c, centerx, centery) ==
    [c EXCEPT !.x = CenterAxis(centerx, c.vw, c.w_px),
              !.y = CenterAxis(centery, c.vh, c.h_px)]

(***************************************************************************)
(* Mon: the rect (left x, top y, a square of side size) and the velocity   *)
(* v of one creature in a world of w_px by h_px.  Velocities are in whole  *)
(* pixels per second and tick lengths in milliseconds, as clock.tick       *)
(* returns them.                                                           *)
(***************************************************************************)
\* size = int((TILE-6) * MON_SCALE), the side of a species' sprite
SPRITE_SIZE == 48
\* the side of the "Critter" sprite: TILE-6
CRITTER_SIZE == 24

SpriteSize(name) == IF name = "Critter" THEN CRITTER_SIZE ELSE SPRITE_SIZE

\* The session keeps no creature's rect.
NoRoamer ==
    [w_px |-> 0, h_px |-> 0, size |-> 0, x |-> 0, y |-> 0, vx |-> 0, vy |-> 0,
     x0 |-> 0, y0 |-> 0, dt |-> 0, elapsed |-> 0, updates |-> 0,
     bounced |-> FALSE]

\* Mon.__init__ for a creature spawned on tile (tx, ty) (1-based here):
\* self.rect = self.image.get_rect(center=pos), pos the centre of the tile.
RoamerInit(g, name, tx, ty, v) ==
    [w_px |-> Len(g[1]) * TILE, h_px |-> Len(g) * TILE,
     size |-> SpriteSize(name),
     x |-> (tx - 1) * TILE + (TILE \div 2) - (SpriteSize(name) \div 2),
     y |-> (ty - 1) * TILE + (TILE \div 2) - (SpriteSize(name) \div 2),
     vx |-> v[1], vy |-> v[2],
     x0 |-> (tx - 1) * TILE + (TILE \div 2) - (SpriteSize(name) \div 2),
     y0 |-> (ty - 1) * TILE + (TILE \div 2) - (SpriteSize(name) \div 2),
     dt |-> 0, elapsed |-> 0, updates |-> 0, bounced |-> FALSE]

\* int(a / 1000), Python's int() rounding towards zero
Trunc1000(a) == IF a >= 0 THEN a \div 1000 ELSE -((-a) \div 1000)

\* int(self.v.x * dt), for dt = ms / 1000.0
Advance(v, ms) == Trunc1000(v * ms)

\* if self.rect.left < 0 or self.rect.right > map_w_px
Crossed(p, size, world) == p < 0 \/ p + size > world

\* A faulty Mon.update: the velocity is kept at a boundary.
Bounce_Kept(v, p, size, world) == v

\* ... : self.v.x *= -1
Bounce(v, p, size, world) == IF Crossed(p, size, world) THEN -v ELSE v

\* A faulty Mon.update: the rect is not brought back at the far boundary.
ClampAxis_LeftOnly(p, size, world) == Max(0, p)

\* self.rect.left = max(0, self.rect.left), then
\* self.rect.right = min(map_w_px, self.rect.right)
ClampAxis(p, size, world) == Min(world, Max(0, p) + size) - size

\* Mon.update(dt, map_w_px, map_h_px)
mon_update(r, ms) ==
    LET nx == r.x + Advance(r.vx, ms)
        ny == r.y + Advance(r.vy, ms)
    IN  [r EXCEPT !.x = ClampAxis(nx, r.size, r.w_px),
                  !.y = ClampAxis(ny, r.size, r.h_px),
                  !.vx = Bounce(r.vx, nx, r.size, r.w_px),
                  !.vy = Bounce(r.vy, ny, r.size, r.h_px),
                  !.dt = ms,
                  !.elapsed = r.elapsed + ms,
                  !.updates = r.updates + 1,
                  !.bounced = (r.bounced \/ Crossed(nx, r.size, r.w_px)
                                         \/ Crossed(ny, r.size, r.h_px))]

(***************************************************************************)
(* Battle.                                                                 *)
(***************************************************************************)
\* main's battle = None.
NoBattle ==
    [on |-> FALSE, wild |-> 0, active |-> FALSE, cooldown |-> 0,
     state |-> "fight", cursor |-> 0, message |-> "", my_mon |-> 0,
     attacks |-> 0]

\* A faulty Battle.__init__: the selection is skipped once a selection has
\* been confirmed in an earlier battle.
InitialState_Once(tm) ==
    IF tm # <<>> /\ ~index_fixed THEN "select" ELSE "fight"

\* self.state = "select" if player.team else "fight"
InitialState(tm) == IF tm # <<>> THEN "select" ELSE "fight"

\* Battle.__init__(player, wild): wild is the creature's place in mons, my_mon
\* the place in team of player.get_active_mon() (0 for None); attacks counts
\* the calls of attack_round that went past its two early returns.
BattleInit(i, tm, ai) ==
    [on |-> TRUE, wild |-> i, active |-> TRUE, cooldown |-> 0,
     state |-> InitialState(tm),
     cursor |-> 0, message |-> "appeared",
     my_mon |-> IF tm = <<>> THEN 0 ELSE ClampActive(ai, tm) + 1,
     attacks |-> 0]

\* Battle.update(dt): self.cooldown = max(0.0, self.cooldown - dt)
CooldownAfter(cd, dt) == Max(0, cd - dt)

\* A faulty attack_round: the die of the damage goes from 1 to 3.
AttackDamage_LowDie(roll, level) == roll - 1 + Max(0, level \div 3)

\* dmg = random.randint(2, 4) + max(0, self.my_mon['level']//3)
AttackDamage(roll, level) == roll + Max(0, level \div 3)
\* enemy_dmg = random.randint(1,3) + max(0, self.wild.level//4)
EnemyDamage(roll, level) == roll + Max(0, level \div 4)

\* A faulty attack_round: the wild creature's hp is not floored at 0.
WildHpAfter_NoFloor(hp, dmg) == hp - dmg

\* self.wild.hp = max(0, self.wild.hp - dmg)
WildHpAfter(hp, dmg) == Max(0, hp - dmg)
\* self.my_mon['hp'] = max(0, self.my_mon['hp'] - enemy_dmg)
MyHpAfter(hp, enemy_dmg) == Max(0, hp - enemy_dmg)

\* A faulty attack_round: alive = list(self.player.team), the fainted counted.
Alive_All(tm) == 1..Len(tm)

\* alive = [m for m in self.player.team if m['hp']>0]
Alive(tm) == {k \in 1..Len(tm) : tm[k].hp > 0}

\* A faulty cooldown test: "if self.cooldown<0: return", which never returns.
OnCooldown_Never(cd) == cd < 0

\* if self.cooldown>0: return
OnCooldown(cd) == cd > 0

\* A faulty attack_round: an apricorn is found on every attack.
ApricornsAfter_Always(a, whp) == a + 1

\* if self.wild.hp <= 0: ... self.player.apricorns += 1
ApricornsAfter(a, whp) == IF whp <= 0 THEN a + 1 ELSE a

\* Battle.attack_round, with the two dice it may roll.
attack_round(roll, eroll) ==
    IF OnCooldown(battle.cooldown)
      THEN UNCHANGED <<battle, mons, team, apricorns>>
    ELSE IF battle.my_mon = 0
      THEN /\ battle' = [battle EXCEPT !.message = "no_team_mon"]
           /\ UNCHANGED <<mons, team, apricorns>>
    ELSE
      LET me   == team[battle.my_mon]
          w    == mons[battle.wild]
          whp  == WildHpAfter(w.hp, AttackDamage(roll, me.level))
          myhp == MyHpAfter(me.hp, EnemyDamage(eroll, w.level))
          tm2  == [team EXCEPT ![battle.my_mon].hp = myhp]
          b    == [battle EXCEPT !.attacks = Min(battle.attacks + 1, limits.max_attacks)]
      IN  /\ mons' = [mons EXCEPT ![battle.wild].hp = whp]
          /\ apricorns' = ApricornsAfter(apricorns, whp)
          /\ IF whp <= 0
               THEN /\ team' = team
                    /\ battle' = [b EXCEPT !.message = "wild_fainted",
                                           !.active = FALSE,
                                           !.cooldown = ATTACK_COOLDOWN]
               ELSE /\ team' = tm2
                    /\ battle' =
                         IF myhp <= 0
                           THEN IF Alive(tm2) # {}
                                  THEN [b EXCEPT !.message = "my_fainted",
                                                 !.state = "select",
                                                 !.cursor = 0,
                                                 !.cooldown = ATTACK_COOLDOWN]
                                  ELSE [b EXCEPT !.message = "no_mons_left",
                                                 !.active = FALSE,
                                                 !.cooldown = ATTACK_COOLDOWN]
                           ELSE [b EXCEPT !.message = "hits_back",
                                          !.cooldown = ATTACK_COOLDOWN]

\* A faulty throw_ball: the member is appended at full hp.
Snapshot_Healed(w) ==
    [name |-> w.name, level |-> w.level, max_hp |-> w.max_hp, hp |-> w.max_hp]

\* The roster member throw_ball appends: the wild creature's name, level,
\* max_hp and hp.
Snapshot(w) ==
    [name |-> w.name, level |-> w.level, max_hp |-> w.max_hp, hp |-> w.hp]

\* A faulty throw_ball: "if self.player.balls < 0", a throw with no ball.
NoBalls_Negative(b) == b < 0

\* if self.player.balls <= 0
NoBalls(b) == b <= 0

\* A faulty throw_ball: the ball is not consumed.
BallsAfterThrow_Kept(b) == b

\* self.player.balls -= 1
BallsAfterThrow(b) == b - 1

\* Battle.throw_ball, with the draw r of random.random().
throw_ball(r) ==
    IF OnCooldown(battle.cooldown)
      THEN UNCHANGED <<battle, balls, team, caught_species, active_index>>
    ELSE IF NoBalls(balls)
      THEN /\ battle' = [battle EXCEPT !.message = "no_balls"]
           /\ UNCHANGED <<balls, team, caught_species, active_index>>
    ELSE
      LET w == mons[battle.wild]
      IN  /\ balls' = BallsAfterThrow(balls)
          /\ IF Caught(r, w.level, w.hp, w.max_hp)
               THEN /\ team' = Append(team, Snapshot(w))
                    /\ caught_species' = caught_species \cup {w.name}
                    /\ IF battle.state = "select"
                         THEN /\ active_index' = Len(team)
                              /\ battle' = [battle EXCEPT !.message = "gotcha",
                                                          !.my_mon = Len(team) + 1,
                                                          !.state = "fight",
                                                          !.active = FALSE,
                                                          !.cooldown = BALL_COOLDOWN]
                         ELSE /\ active_index' = active_index
                              /\ battle' = [battle EXCEPT !.message = "gotcha",
                                                          !.active = FALSE,
                                                          !.cooldown = BALL_COOLDOWN]
               ELSE /\ battle' = [battle EXCEPT !.message = "broke_free",
                                                !.cooldown = BALL_COOLDOWN]
                    /\ UNCHANGED <<team, caught_species, active_index>>

(***************************************************************************)
(* main: the session.                                                      *)
(***************************************************************************)
\* A faulty victory test: ">" for ">=".
VictoryCheck_Strict(v, caught, all) == v \/ Cardinality(caught) > Cardinality(all)

\* if not victory and len(player.caught_species) >= len(ALL_SPECIES): victory=True
VictoryCheck(v, caught, all) ==
    IF ~v /\ Cardinality(caught) >= Cardinality(all) THEN TRUE ELSE v

\* Tick time for which len(mons) has been below the target: 0 when it is not
\* below, 0 on the step it falls, dt more on a later tick; counted up to
\* one unit past RESPAWN_INTERVAL.
Below(b, before, after, dt) ==
    IF after >= TARGET_MON_COUNT \/ before >= TARGET_MON_COUNT
      THEN 0
      ELSE Min(b + dt, RESPAWN_INTERVAL + 1)

Geometry == <<grid, creatures, cam, throws, limits, roamer>>

\* K_ESCAPE: the victory screen is dismissed, or the battle is left.  With
\* neither, ESC ends the loop (running=False): the session takes no step.
KeyEscape ==
    /\ victory \/ (battle.on /\ battle.active)
    /\ IF victory
         THEN /\ victory' = FALSE
              /\ UNCHANGED battle
         ELSE /\ battle' = NoBattle
              /\ UNCHANGED victory
    /\ dismissed' = (dismissed \/ victory)
    /\ UNCHANGED <<mons, bushes, respawn_t, bush_t, apricorns, balls, team,
                   caught_species, active_index, below_all, below_world>>
    /\ UNCHANGED <<moved, index_fixed>>
    /\ UNCHANGED Geometry

\* K_c: if player.apricorns>=3: player.apricorns-=3; player.balls+=1
KeyC ==
    /\ apricorns >= CRAFT_COST => balls < limits.max_balls
    /\ IF apricorns >= CRAFT_COST
         THEN apricorns' = apricorns - CRAFT_COST /\ balls' = balls + 1
         ELSE UNCHANGED <<apricorns, balls>>
    /\ UNCHANGED <<mons, bushes, respawn_t, bush_t, team, caught_species,
                   active_index, battle, victory, below_all, below_world>>
    /\ UNCHANGED <<moved, index_fixed, dismissed>>
    /\ UNCHANGED Geometry

\* K_p: world.mons.add(world.spawn_mon(player.rect.center))
KeyP ==
    /\ Len(mons) < limits.max_mons
    /\ \E m \in spawn_mon(grid, creatures) : mons' = Append(mons, m)
    /\ below_all' = Below(below_all, Len(mons), Len(mons) + 1, 0)
    /\ below_world' = Below(below_world, Len(mons), Len(mons) + 1, 0)
    /\ UNCHANGED <<bushes, respawn_t, bush_t, apricorns, balls, team,
                   caught_species, active_index, battle, victory>>
    /\ UNCHANGED <<moved, index_fixed, dismissed>>
    /\ UNCHANGED Geometry

\* K_e: the first creature the player's rect touches (place i; 0 for none)
\* becomes the wild creature of a new Battle.
KeyE ==
    /\ \E i \in 0..Len(mons) :
         IF ~battle.on /\ ~victory /\ i > 0
           THEN /\ battle' = BattleInit(i, team, active_index)
                /\ active_index' = ClampActive(active_index, team)
           ELSE UNCHANGED <<battle, active_index>>
    /\ UNCHANGED <<mons, bushes, respawn_t, bush_t, apricorns, balls, team,
                   caught_species, victory, below_all, below_world>>
    /\ UNCHANGED <<moved, index_fixed, dismissed>>
    /\ UNCHANGED Geometry

\* K_UP, K_w / K_DOWN, K_s in Battle.handle_input (step is -1 or 1)
KeyCursor(step) ==
    /\ battle.on
    /\ IF battle.state = "select" /\ team # <<>>
         THEN battle' = [battle EXCEPT !.cursor = (battle.cursor + step) % Len(team)]
         ELSE UNCHANGED battle
    /\ UNCHANGED <<mons, bushes, respawn_t, bush_t, apricorns, balls, team,
                   caught_species, active_index, victory,
                   below_all, below_world>>
    /\ UNCHANGED <<moved, index_fixed, dismissed>>
    /\ UNCHANGED Geometry

KeyUp == KeyCursor(-1)
KeyDown == KeyCursor(1)

\* K_RETURN, K_KP_ENTER in Battle.handle_input
KeyReturn ==
    /\ battle.on
    /\ IF battle.state = "select" /\ team # <<>>
         THEN /\ active_index' = ClampActive(battle.cursor, team)
              /\ battle' = [battle EXCEPT
                              !.my_mon = ClampActive(battle.cursor, team) + 1,
                              !.state = "fight"]
         ELSE UNCHANGED <<battle, active_index>>
    /\ UNCHANGED <<mons, bushes, respawn_t, bush_t, apricorns, balls, team,
                   caught_species, victory, below_all, below_world>>
    /\ index_fixed' = (index_fixed \/ (battle.state = "select" /\ team # <<>>))
    /\ UNCHANGED <<moved, dismissed>>
    /\ UNCHANGED Geometry

\* K_f in Battle.handle_input
KeyF ==
    /\ battle.on
    /\ apricorns < limits.max_apricorns
    /\ IF battle.state = "select"
         THEN UNCHANGED <<battle, mons, team, apricorns>>
         ELSE \E roll \in limits.rolls, eroll \in limits.erolls : attack_round(roll, eroll)
    /\ UNCHANGED <<bushes, respawn_t, bush_t, balls, caught_species,
                   active_index, victory, below_all, below_world>>
    /\ UNCHANGED <<moved, index_fixed, dismissed>>
    /\ UNCHANGED Geometry

\* K_SPACE: Battle.handle_input when there is a battle, else the victory
\* screen's dismissal.
KeySpace ==
    /\ battle.on => Len(team) < limits.max_team
    /\ IF battle.on
         THEN /\ IF battle.state = "select"
                   THEN UNCHANGED <<battle, balls, team, caught_species, active_index>>
                   ELSE \E r \in limits.draws : throw_ball(r)
              /\ UNCHANGED victory
         ELSE /\ victory' = FALSE
              /\ UNCHANGED <<battle, balls, team, caught_species, active_index>>
    /\ dismissed' = (dismissed \/ (~battle.on /\ victory))
    /\ UNCHANGED <<mons, bushes, respawn_t, bush_t, apricorns,
                   below_all, below_world>>
    /\ UNCHANGED <<moved, index_fixed>>
    /\ UNCHANGED Geometry

\* LevelWorld.pick_bush(player): whether the player's rect touches a bush,
\* which is then removed.
PickBush(b, a) ==
    IF b > 0 /\ a < limits.max_apricorns THEN {TRUE, FALSE} ELSE {FALSE}

\* LevelWorld.timers_update(dt, player), on the bushes b left by pick_bush
timers_update(dt, b) ==
    /\ IF respawn_t + dt >= RESPAWN_INTERVAL
         THEN /\ respawn_t' = 0
              /\ mons' \in MonRespawn(mons, grid, creatures)
         ELSE /\ respawn_t' = respawn_t + dt
              /\ mons' = mons
    /\ IF bush_t + dt >= BUSH_RESPAWN_SEC
         THEN /\ bush_t' = 0
              /\ bushes' \in BushRegrow(b, grid)
         ELSE /\ bush_t' = bush_t + dt
              /\ bushes' = b

\* The update of a loop iteration with no battle and no victory screen
\* (main.py 530-539): pick_bush, timers_update.
WorldUpdate(dt) ==
    /\ \E picked \in PickBush(bushes, apricorns) :
         /\ apricorns' = IF picked THEN apricorns + 1 ELSE apricorns
         /\ timers_update(dt, IF picked THEN bushes - 1 ELSE bushes)
    /\ below_all' = Below(below_all, Len(mons), Len(mons'), dt)
    /\ below_world' = Below(below_world, Len(mons), Len(mons'), dt)
    /\ UNCHANGED battle

\* The update of the other loop iterations (main.py 540-546): the battle's
\* cooldown runs, and a battle no longer active is ended and its wild
\* creature removed from world.mons.
BattleUpdate(dt) ==
    /\ IF battle.on
         THEN IF ~battle.active
                THEN /\ mons' = RemoveAt(mons, battle.wild)
                     /\ battle' = NoBattle
                ELSE /\ mons' = mons
                     /\ battle' = [battle EXCEPT
                                     !.cooldown = CooldownAfter(battle.cooldown, dt)]
         ELSE UNCHANGED <<mons, battle>>
    /\ below_all' = Below(below_all, Len(mons), Len(mons'), dt)
    /\ below_world' = Below(below_world, Len(mons), Len(mons'), 0)
    /\ UNCHANGED <<bushes, respawn_t, bush_t, apricorns>>

\* A faulty main: "if not victory", the world running during a battle.
WorldRuns_InBattle(b, v) == ~v

\* if not battle and not victory: the world runs (player.handle_move,
\* world.mons.update, pick_bush, timers_update, cam.center_on)
WorldRuns(b, v) == ~b.on /\ ~v

\* One loop iteration after its events: the update, the victory check and
\* the draw (whose get_active_mon clamps active_index).
Frame(dt) ==
    /\ IF WorldRuns(battle, victory) THEN WorldUpdate(dt) ELSE BattleUpdate(dt)
    /\ moved' = WorldRuns(battle, victory)
    /\ UNCHANGED <<index_fixed, dismissed>>
    /\ victory' = VictoryCheck(victory, caught_species, ALL_SPECIES(creatures))
    /\ active_index' = ClampActive(active_index, team)
    /\ UNCHANGED <<balls, team, caught_species>>
    /\ UNCHANGED Geometry

\* dt = clock.tick(FPS)/1000.0
Tick ==
    \E dt \in (IF battle.on THEN limits.battle_dt ELSE limits.world_dt) : Frame(dt)

(***************************************************************************)
(* The session: a level of four rows, water above grass (no grass tile in  *)
(* the upper third, so no bush grows), and one species living on it; the   *)
(* table's sand species never spawns, so the session has no victory.       *)
(***************************************************************************)
SessionGrid == << <<"water">>, <<"grass">>, <<"grass">>, <<"grass">> >>

SessionTables ==
    { [grass |-> {"Bulbasaur"}, water |-> {"Bulbasaur"}, sand |-> {"Sandshrew"}] }

\* The zoomed viewport of main: int(WIDTH / ZOOM), int(HEIGHT / ZOOM) at zoom 2.0
VIEW_W == 480
VIEW_H == 270

\* main.py 487-501, with LevelWorld.__init__ and Player.__init__; the rect
\* of a creature is left to SpecWander.
SetupInit(g, tables, lim, vw, vh) ==
    /\ limits = lim
    /\ grid = g
    /\ creatures \in tables
    /\ mons \in Replenished(<<>>, grid, creatures)
    /\ bushes \in InitialBushes(INITIAL_BUSHES, 0, grid)
    /\ respawn_t = 0
    /\ bush_t = 0
    /\ apricorns = 0
    /\ balls = INITIAL_BALLS
    /\ team = <<>>
    /\ caught_species = {}
    /\ active_index = 0
    /\ battle = NoBattle
    /\ victory = FALSE
    /\ below_all = 0
    /\ below_world = 0
    /\ cam = CameraInit(Len(g[1]), Len(g), vw, vh)
    /\ throws = <<>>
    /\ moved = FALSE
    /\ index_fixed = FALSE
    /\ dismissed = FALSE

SessionInit(g, tables, lim, vw, vh) ==
    /\ SetupInit(g, tables, lim, vw, vh)
    /\ roamer = NoRoamer

Init == SessionInit(SessionGrid, SessionTables, SessionLimits, VIEW_W, VIEW_H)

Next ==
    \/ KeyEscape
    \/ KeyC
    \/ KeyP
    \/ KeyE
    \/ KeyUp
    \/ KeyDown
    \/ KeyReturn
    \/ KeyF
    \/ KeySpace
    \/ Tick

Spec == Init /\ [][Next]_vars

(***************************************************************************)
(* The population of the world: the session's level and table, with debug  *)
(* spawns beyond the target.                                               *)
(***************************************************************************)
InitWorld == SessionInit(SessionGrid, SessionTables, WorldLimits, VIEW_W, VIEW_H)

SpecWorld == InitWorld /\ [][Next]_vars

(***************************************************************************)
(* The respawn timer: the session's level and table, with a target of two. *)
(***************************************************************************)
InitRespawn == SessionInit(SessionGrid, SessionTables, RespawnLimits, VIEW_W, VIEW_H)

SpecRespawn == InitRespawn /\ [][Next]_vars

(***************************************************************************)
(* The bushes: a level of one row of BushTiles grass tiles, each a         *)
(* candidate for a bush, and a player with no team and no way to get one.  *)
(***************************************************************************)
BushGrid == << [i \in 1..BushTiles |-> "grass"] >>

InitBush == SessionInit(BushGrid, SessionTables, BushLimits, VIEW_W, VIEW_H)

SpecBush == InitBush /\ [][Next]_vars

(***************************************************************************)
(* Victory: the species table is complete, or has no species for water     *)
(* (where "Critter" then spawns), or has no species at all.                *)
(***************************************************************************)
VictoryTables ==
    { [grass |-> {"Bulbasaur"}, water |-> {"Squirtle"}, sand |-> {}],
      [grass |-> {"Bulbasaur"}, water |-> {}, sand |-> {}],
      [grass |-> {}, water |-> {}, sand |-> {}] }

InitVictory == SessionInit(SessionGrid, VictoryTables, VictoryLimits, VIEW_W, VIEW_H)

SpecVictory == InitVictory /\ [][Next]_vars

(***************************************************************************)
(* The camera: levels smaller than, as large as and larger than the        *)
(* viewport on each axis, at zoom 2.0 and at zoom 1.5, recentred on focus  *)
(* points inside and outside the world.                                    *)
(***************************************************************************)
CameraTilesW == {1, 16, 40, 64}
CameraTilesH == {1, 9, 20, 36}
Viewports == { <<VIEW_W, VIEW_H>>, <<640, 360>> }
FocusXs == {-100, 0, 15, 240, 241, 500, 1000, 1919, 1920, 3000}
FocusYs == {-100, 0, 15, 135, 136, 300, 700, 1079, 1080, 2000}

CameraGrid(w, h) == [y \in 1..h |-> [x \in 1..w |-> "water"]]

InitCamera ==
    \E w \in CameraTilesW, h \in CameraTilesH, v \in Viewports :
        SessionInit(CameraGrid(w, h), SessionTables, SessionLimits, v[1], v[2])

\* cam.center_on(player.rect), for a rect centred on (centerx, centery)
CenterOn ==
    \E centerx \in FocusXs, centery \in FocusYs :
        /\ cam' = center_on(cam, centerx, centery)
        /\ UNCHANGED <<grid, creatures, mons, bushes, respawn_t, bush_t,
                       apricorns, balls, team, caught_species, active_index,
                       battle, victory, below_all, below_world, limits, throws,
                       moved, index_fixed, roamer, dismissed>>

NextCamera == CenterOn

SpecCamera == InitCamera /\ [][NextCamera]_vars

(***************************************************************************)
(* The attacks of a battle: the session's level and table, with the calls  *)
(* of attack_round that dealt damage counted in the battle.                *)
(***************************************************************************)
InitAttack == SessionInit(SessionGrid, SessionTables, AttackLimits, VIEW_W, VIEW_H)

SpecAttack == InitAttack /\ [][Next]_vars

(***************************************************************************)
(* The capture chance: throw_ball's chance for two wild creatures, each of *)
(* any level spawn_mon gives and any hp from 0 to its max_hp.              *)
(***************************************************************************)
ChanceOfThrow ==
    /\ Len(throws) < 2
    /\ \E level \in 1..MAX_LEVEL :
         \E hp \in 0..MonInit("Bulbasaur", level, "grass").max_hp :
            throws' = Append(throws,
                ThrowRecord(level, hp, MonInit("Bulbasaur", level, "grass").max_hp))
    /\ UNCHANGED <<grid, creatures, mons, bushes, respawn_t, bush_t,
                   apricorns, balls, team, caught_species, active_index,
                   battle, victory, below_all, below_world, limits, cam,
                   moved, index_fixed, roamer, dismissed>>

NextChance == ChanceOfThrow

SpecChance == Init /\ [][NextChance]_vars

(***************************************************************************)
(* The wander of a creature: levels narrower and wider than a sprite, a    *)
(* species' sprite and the "Critter" sprite, spawned on any tile with one  *)
(* of a few velocities of speed 20 to 35, and updated MaxUpdates times     *)
(* with ticks of 17 ms (60 frames a second) and longer.                    *)
(***************************************************************************)
MaxUpdates == 3

WanderTilesW == {1, 2, 4}
WanderTilesH == {1, 3}
WanderTables ==
    { [grass |-> {"Bulbasaur"}, water |-> {"Bulbasaur"}, sand |-> {}],
      [grass |-> {}, water |-> {}, sand |-> {}] }
Velocities == { <<35, 0>>, <<-21, 28>>, <<12, -16>>, <<-24, -7>>, <<0, -20>> }
TickLengths == {17, 50, 250, 1000}

InitWander ==
    \E w \in WanderTilesW, h \in WanderTilesH :
        /\ SetupInit(CameraGrid(w, h), WanderTables, SessionLimits, VIEW_W, VIEW_H)
        /\ \E t \in Tiles(grid), v \in Velocities :
              roamer = RoamerInit(grid, mons[1].name, t[1], t[2], v)

\* world.mons.update(dt, world.w_px, world.h_px), for the one creature
MonUpdate ==
    /\ roamer.updates < MaxUpdates
    /\ \E ms \in TickLengths : roamer' = mon_update(roamer, ms)
    /\ UNCHANGED <<grid, creatures, mons, bushes, respawn_t, bush_t,
                   apricorns, balls, team, caught_species, active_index,
                   battle, victory, below_all, below_world, limits, cam,
                   throws, moved, index_fixed, dismissed>>

NextWander == MonUpdate

SpecWander == InitWander /\ [][NextWander]_vars

(***************************************************************************)
(* Properties.                                                             *)
(***************************************************************************)
HpInRange(m) ==
    /\ m.max_hp = 10 + 3 * m.level
    /\ 0 <= m.hp
    /\ m.hp <= m.max_hp

\* C1 (Spec): every wild creature of the world and every member of the
\* player's team has 0 <= hp <= max_hp, with max_hp = 10 + 3 * level.
C1_HpInRange ==
    /\ \A i \in 1..Len(mons) : HpInRange(mons[i])
    /\ \A k \in 1..Len(team) : HpInRange(team[k])

\* A wild creature brought to 0 by an attack while a member of the team lies
\* fainted from a counter-attack.
C1_Witness ==
    /\ \E i \in 1..Len(mons) : mons[i].hp = 0
    /\ \E k \in 1..Len(team) : team[k].hp = 0

\* C2 as stated (SpecWorld): len(mons) is never above the target by more than
\* one replenishment pass can add, which is at most the target itself.
C2_WithinOnePass == Len(mons) <= TARGET_MON_COUNT + TARGET_MON_COUNT

\* C2 amended (SpecWorld): a debug spawn adds exactly one creature, whatever
\* the count; any other step that adds creatures is a replenishment pass,
\* which starts below the target and ends at exactly the target.
C2_OnlyShortfallAdded ==
    [][ /\ KeyP => Len(mons') = Len(mons) + 1
        /\ (Len(mons') > Len(mons) /\ ~KeyP) =>
              (Len(mons) < TARGET_MON_COUNT /\ Len(mons') = TARGET_MON_COUNT)
      ]_vars

\* Debug spawns, of one creature each, have taken the world above the target
\* by more than the target.
C2_Witness == Len(mons) > TARGET_MON_COUNT + TARGET_MON_COUNT

\* C3 as stated (SpecRespawn): while len(mons) is below the target, no more
\* than one respawn interval of tick time has gone by since it fell.
C3_BackWithinInterval ==
    Len(mons) < TARGET_MON_COUNT => below_all <= RESPAWN_INTERVAL

\* C3 amended (SpecRespawn): while len(mons) is below the target, less than
\* one respawn interval of tick time has gone by since it fell, counting only
\* the ticks with no battle and no victory screen; and the step that ends the
\* shortage leaves exactly the target.
C3_BackWithinWorldInterval ==
    /\ [](Len(mons) < TARGET_MON_COUNT => below_world < RESPAWN_INTERVAL)
    /\ [][(Len(mons) < TARGET_MON_COUNT /\ Len(mons') >= TARGET_MON_COUNT)
            => Len(mons') = TARGET_MON_COUNT]_vars

\* The world is short of a creature, and part of the time since it fell was
\* spent in a battle.
C3_Witness ==
    /\ Len(mons) < TARGET_MON_COUNT
    /\ below_world > 0
    /\ below_all > below_world

\* C4 (SpecCamera): on each axis 0 <= origin <= max(0, world - viewport).
C4_CameraInWorld ==
    /\ 0 <= cam.x /\ cam.x <= Max(0, cam.w_px - cam.vw)
    /\ 0 <= cam.y /\ cam.y <= Max(0, cam.h_px - cam.vh)

\* A level narrower than the viewport and taller than it, recentred on a
\* focus below the level: x is 0 and y is at its upper limit.
C4_Witness ==
    /\ cam.w_px < cam.vw
    /\ cam.x = 0
    /\ cam.h_px > cam.vh
    /\ cam.y = cam.h_px - cam.vh

\* C5 (SpecChance): every chance computed is at least 0.15 and at most 0.65.
C5_ChanceInRange ==
    \A i \in 1..Len(throws) :
        /\ 3 * throws[i].den <= 20 * throws[i].num
        /\ 20 * throws[i].num <= 13 * throws[i].den

\* The lowest chance (a wild creature at full hp) and the highest (level 1,
\* hp 0).
C5_Witness ==
    /\ Len(throws) = 2
    /\ throws[1].hp = throws[1].max_hp
    /\ 3 * throws[1].den = 20 * throws[1].num
    /\ throws[2].level = 1
    /\ throws[2].hp = 0

\* C6 as stated (SpecChance): of two wild creatures with the same hp, the one
\* of the higher level has no greater chance.
C6_LevelAtFixedHp ==
    \A i, j \in 1..Len(throws) :
        (throws[i].level < throws[j].level /\ throws[i].hp = throws[j].hp)
            => throws[j].num * throws[i].den <= throws[i].num * throws[j].den

\* C6 amended (SpecChance): of two wild creatures with the same hp / max_hp,
\* the one of the higher level has no greater chance.
C6_LevelAtFixedHpRatio ==
    \A i, j \in 1..Len(throws) :
        ( /\ throws[i].level < throws[j].level
          /\ throws[i].hp * throws[j].max_hp = throws[j].hp * throws[i].max_hp )
            => throws[j].num * throws[i].den <= throws[i].num * throws[j].den

\* Two creatures of different levels at the same part of their max_hp, the
\* chance for the higher level being lower.
C6_Witness ==
    /\ Len(throws) = 2
    /\ throws[1].level < throws[2].level
    /\ throws[1].hp > 0
    /\ throws[1].hp < throws[1].max_hp
    /\ throws[1].hp * throws[2].max_hp = throws[2].hp * throws[1].max_hp
    /\ throws[2].num * throws[1].den < throws[1].num * throws[2].den

\* C7 (SpecChance): of two wild creatures of the same level, the one with
\* less hp has no smaller chance.
C7_HpAtFixedLevel ==
    \A i, j \in 1..Len(throws) :
        (throws[i].level = throws[j].level /\ throws[i].hp < throws[j].hp)
            => throws[i].num * throws[j].den >= throws[j].num * throws[i].den

\* Two creatures of one level, the chance for the one with less hp being
\* greater.
C7_Witness ==
    /\ Len(throws) = 2
    /\ throws[1].level = throws[2].level
    /\ throws[1].hp < throws[2].hp
    /\ throws[1].num * throws[2].den > throws[2].num * throws[1].den

\* C8 (SpecBush): there are never more than MAX_BUSHES bushes.
C8_BushesWithinMax == bushes <= MAX_BUSHES

\* Bushes have been picked and have grown back up to MAX_BUSHES.
C8_Witness ==
    /\ bushes = MAX_BUSHES
    /\ apricorns > 0

\* C9 (SpecVictory): at the end of a loop iteration victory is set exactly
\* when the number of caught species has reached the number of species of
\* the table; it is never set while fewer are caught, and only the end of a
\* loop iteration sets it.
C9_VictoryWhenCountReached ==
    /\ [](victory => Cardinality(caught_species) >= Cardinality(ALL_SPECIES(creatures)))
    /\ [][ /\ Tick => (victory' <=> Cardinality(caught_species')
                                      >= Cardinality(ALL_SPECIES(creatures')))
           /\ (~victory /\ victory') => Tick ]_vars

\* Victory on a table of two species, both caught.
C9_Witness ==
    /\ victory
    /\ Cardinality(ALL_SPECIES(creatures)) = 2
    /\ caught_species = ALL_SPECIES(creatures)

\* C10 (SpecVictory): whenever victory is set, every species of the table is
\* in caught_species.
C10_VictoryMeansAllCaught ==
    victory => ALL_SPECIES(creatures) \subseteq caught_species

\* A step of attack_round in which the wild creature survives the attack and
\* its counter-attack leaves the attacking member of the team at hp 0.
CounterAttackFaints ==
    /\ battle.on
    /\ battle.my_mon > 0
    /\ Len(mons') = Len(mons)
    /\ mons'[battle.wild].hp < mons[battle.wild].hp
    /\ mons'[battle.wild].hp > 0
    /\ team'[battle.my_mon].hp = 0

\* C11 (Spec): when a counter-attack leaves the attacking member at hp 0, the
\* battle goes to "select" with cursor 0 and stays active if a member of the
\* team has hp > 0, and is no longer active if none has.
C11_FaintSelectsOrResolves ==
    [][ CounterAttackFaints =>
          IF \E k \in 1..Len(team') : team'[k].hp > 0
            THEN /\ battle'.on /\ battle'.active
                 /\ battle'.state = "select"
                 /\ battle'.cursor = 0
            ELSE ~battle'.active
      ]_vars

\* The battle is back in "select", active, after the attacking member
\* fainted with another member alive.
C11_Witness ==
    /\ battle.on /\ battle.active
    /\ battle.state = "select"
    /\ battle.message = "my_fainted"
    /\ team[battle.my_mon].hp = 0
    /\ \E k \in 1..Len(team) : team[k].hp > 0

\* A step that creates a Battle.
BattleStarts == ~battle.on /\ battle'.on

\* C12 as stated (Spec): a new battle starts in "fight" if the team is empty
\* or a selection was confirmed in an earlier battle, and in "select"
\* otherwise.
C12_SelectUnlessFixed ==
    [][ BattleStarts =>
          battle'.state = (IF team = <<>> \/ index_fixed THEN "fight" ELSE "select")
      ]_vars

\* C12 amended (Spec): a new battle starts in "fight" if the team is empty and
\* in "select" otherwise, whether or not a selection was confirmed before.
C12_SelectUnlessNoTeam ==
    [][ BattleStarts =>
          battle'.state = (IF team = <<>> THEN "fight" ELSE "select")
      ]_vars

\* A new battle in "select", after a selection was confirmed in an earlier
\* one.
C12_Witness ==
    /\ battle.on
    /\ battle.message = "appeared"
    /\ battle.state = "select"
    /\ index_fixed

\* C13 (SpecBush): while there is a battle, a loop iteration does not move
\* the player or the creatures, leaves both timers where they are and picks
\* no bush, and the E key does not replace the battle.
C13_BattleSuspendsWorld ==
    [][ battle.on =>
          /\ Tick => /\ ~moved'
                     /\ respawn_t' = respawn_t
                     /\ bush_t' = bush_t
                     /\ bushes' = bushes
                     /\ apricorns' = apricorns
          /\ KeyE => battle' = battle
      ]_vars

\* A battle during which a loop iteration has passed, with a bush standing
\* and both timers part of the way.
C13_Witness ==
    /\ battle.on
    /\ ~moved
    /\ bushes > 0
    /\ respawn_t > 0
    /\ bush_t > 0

\* C14 (SpecVictory): ESC pressed during a battle in "select" or "fight" ends
\* the battle at once and leaves apricorns, balls, team and caught_species
\* as they were.
C14_EscapeEndsBattle ==
    [][ (battle.on /\ battle.active /\ KeyEscape) =>
          /\ ~battle'.on
          /\ apricorns' = apricorns
          /\ balls' = balls
          /\ team' = team
          /\ caught_species' = caught_species
      ]_vars

\* C15 (Spec): F or SPACE pressed in a battle whose cooldown has not run out
\* changes nothing: neither the creatures, the team, the balls, the
\* apricorns, the caught species nor the battle (state, cooldown, message).
C15_CooldownBlocks ==
    [][ (battle.on /\ battle.cooldown > 0 /\ (KeyF \/ KeySpace)) =>
          UNCHANGED <<mons, team, balls, apricorns, caught_species,
                      active_index, battle>>
      ]_vars

\* A battle in "fight" on cooldown, with a member to attack with and a ball
\* to throw.
C15_Witness ==
    /\ battle.on /\ battle.active
    /\ battle.state = "fight"
    /\ battle.cooldown > 0
    /\ battle.my_mon > 0
    /\ balls > 0

\* C16 (Spec): off cooldown, in "fight", SPACE with no ball and F with an
\* empty team change the battle's message and nothing else.
C16_NothingToUse ==
    [][ (battle.on /\ battle.state = "fight" /\ battle.cooldown = 0) =>
          /\ (KeySpace /\ balls = 0) =>
                /\ battle' = [battle EXCEPT !.message = "no_balls"]
                /\ battle'.active
                /\ UNCHANGED <<mons, team, balls, apricorns, caught_species,
                               active_index>>
          /\ (KeyF /\ team = <<>>) =>
                /\ battle' = [battle EXCEPT !.message = "no_team_mon"]
                /\ battle'.active
                /\ UNCHANGED <<mons, team, balls, apricorns, caught_species,
                               active_index>>
      ]_vars

\* A battle still active after a throw with no ball.
C16_Witness ==
    /\ battle.on /\ battle.active
    /\ battle.state = "fight"
    /\ battle.message = "no_balls"
    /\ balls = 0

\* A step of throw_ball that catches the wild creature.
CaptureSucceeds == battle.on /\ Len(team') = Len(team) + 1

\* C17 (Spec): a successful capture appends one member with the wild
\* creature's name, level, max_hp and hp of that moment, adds its name to
\* caught_species, takes one ball and leaves the battle no longer active; the
\* loop iteration that follows removes that creature from mons and ends the
\* battle.
C17_CaptureEffects ==
    [][ /\ CaptureSucceeds =>
              /\ SubSeq(team', 1, Len(team)) = team
              /\ team'[Len(team')].name = mons[battle.wild].name
              /\ team'[Len(team')].level = mons[battle.wild].level
              /\ team'[Len(team')].max_hp = mons[battle.wild].max_hp
              /\ team'[Len(team')].hp = mons[battle.wild].hp
              /\ caught_species' = caught_species \cup {mons[battle.wild].name}
              /\ balls' = balls - 1
              /\ battle'.on /\ ~battle'.active
              /\ mons' = mons
        /\ (battle.on /\ battle.message = "gotcha" /\ Tick) =>
              /\ ~battle.active
              /\ mons' = SubSeq(mons, 1, battle.wild - 1)
                             \o SubSeq(mons, battle.wild + 1, Len(mons))
              /\ ~battle'.on
      ]_vars

\* A creature hurt in the battle has been caught, at the hp it had, and is
\* gone from the world.
C17_Witness ==
    /\ ~battle.on
    /\ mons = <<>>
    /\ apricorns = 0
    /\ Len(team) = 2
    /\ team[2].hp > 0
    /\ team[2].hp < team[2].max_hp
    /\ caught_species # {}

\* A step of throw_ball that takes a ball and does not catch the creature.
CaptureFails ==
    /\ battle.on
    /\ KeySpace
    /\ battle' # battle
    /\ battle'.active
    /\ battle'.message # "no_balls"

\* C18 (Spec): a failed capture takes one ball and sets the cooldown of a
\* throw; the battle stays active in "fight" and only its message and
\* cooldown change; team, caught_species, active_index and every hp are as
\* before.
C18_FailedCaptureEffects ==
    [][ CaptureFails =>
          /\ balls' = balls - 1
          /\ battle.state = "fight"
          /\ battle' = [battle EXCEPT !.message = battle'.message,
                                      !.cooldown = BALL_COOLDOWN]
          /\ UNCHANGED <<team, caught_species, active_index, mons, apricorns>>
      ]_vars

\* The creature has just broken free of a ball.
C18_Witness ==
    /\ battle.on /\ battle.active
    /\ battle.state = "fight"
    /\ battle.message = "broke_free"
    /\ battle.cooldown = BALL_COOLDOWN
    /\ balls < INITIAL_BALLS

\* A step of attack_round that brings the wild creature to hp 0.
FatalAttack ==
    /\ battle.on
    /\ Len(mons') = Len(mons)
    /\ mons[battle.wild].hp > 0
    /\ mons'[battle.wild].hp = 0

\* C19 (Spec): during a battle, the attack that brings the wild creature to
\* hp 0 adds exactly one apricorn and leaves the battle no longer active; no
\* other step of the battle (crafting aside) changes the apricorns.
C19_ApricornOnFatalAttack ==
    [][ (battle.on /\ ~KeyC) =>
          IF FatalAttack
            THEN apricorns' = apricorns + 1 /\ ~battle'.active
            ELSE apricorns' = apricorns
      ]_vars

\* The wild creature has just fainted and the apricorn is in the bag.
C19_Witness ==
    /\ battle.on /\ ~battle.active
    /\ mons[battle.wild].hp = 0
    /\ apricorns > 0

\* C20 (SpecWorld): a creature leaves mons only as the wild creature of a
\* battle, caught or brought to hp 0.
C20_RemovedOnlyCaughtOrFainted ==
    [][ Len(mons') < Len(mons) =>
          /\ battle.on
          /\ mons' = SubSeq(mons, 1, battle.wild - 1)
                         \o SubSeq(mons, battle.wild + 1, Len(mons))
          /\ \/ mons[battle.wild].hp = 0
             \/ battle.message = "gotcha"
      ]_vars

\* The creature's position (the centre of its rect) is inside the world on
\* an axis, and so is the whole rect when the world is as long as the rect.
InsideAxis(p, size, world) ==
    /\ 0 <= 2 * p + size
    /\ 2 * p + size <= 2 * world
    /\ world >= size => (0 <= p /\ p + size <= world)

\* An update's effect on one axis: where the velocity takes the rect, and
\* what Mon.update leaves.
BouncedBack(p, v, p2, v2, ms, size, world) ==
    LET np == p + Advance(v, ms)
    IN  IF np < 0 \/ np + size > world
          THEN v2 = -v /\ InsideAxis(p2, size, world)
          ELSE v2 = v /\ p2 = np

\* C21 (SpecWander): after every update the creature is inside the world on
\* both axes; on an axis where the update took its rect across a boundary
\* the rect is brought back and the velocity negated, and on an axis where
\* it did not the rect is where the velocity took it.
C21_WanderInsideWorld ==
    /\ [](roamer.updates > 0 =>
            /\ InsideAxis(roamer.x, roamer.size, roamer.w_px)
            /\ InsideAxis(roamer.y, roamer.size, roamer.h_px))
    /\ [][ /\ BouncedBack(roamer.x, roamer.vx, roamer'.x, roamer'.vx,
                          roamer'.dt, roamer.size, roamer.w_px)
           /\ BouncedBack(roamer.y, roamer.vy, roamer'.y, roamer'.vy,
                          roamer'.dt, roamer.size, roamer.h_px)
         ]_vars

\* A creature moving right has been stopped at the right edge of a world
\* wider than its rect, and now moves left.
C21_Witness ==
    /\ roamer.updates > 0
    /\ roamer.w_px > roamer.size
    /\ roamer.x + roamer.size = roamer.w_px
    /\ roamer.x > roamer.x0
    /\ roamer.vx < 0

\* C22 (SpecWander): while no update has taken the creature across a
\* boundary, its displacement on each axis is its velocity times the time
\* its updates add up to, within one pixel.
C22_DisplacementIsVelocityTimesTime ==
    (roamer.updates > 0 /\ ~roamer.bounced) =>
        /\ 1000 * (roamer.x - roamer.x0) - roamer.vx * roamer.elapsed <= 1000
        /\ roamer.vx * roamer.elapsed - 1000 * (roamer.x - roamer.x0) <= 1000
        /\ 1000 * (roamer.y - roamer.y0) - roamer.vy * roamer.elapsed <= 1000
        /\ roamer.vy * roamer.elapsed - 1000 * (roamer.y - roamer.y0) <= 1000


\* C23: once the victory overlay has been dismissed with SPACE or ESC, the
\* victory flag stays false, so that the world's updates go on in the loop
\* iterations that follow.
C23_DismissedStaysFalse == dismissed => ~victory


\* A step of attack_round that lowered the wild creature's hp.
DamageDealt ==
    /\ battle.on /\ battle.active
    /\ Len(mons') = Len(mons)
    /\ mons'[battle.wild].hp < mons[battle.wild].hp

\* A confirm in the selection: the battle goes from "select" to "fight".
Confirmed ==
    /\ battle.on /\ battle.state = "select"
    /\ battle'.on /\ battle'.state = "fight"

\* C24: whenever an attack deals damage to the wild creature, the attacking
\* team member has hp above 0, and a confirm in the selection never makes a
\* member with hp 0 the active one.
C24_AttackerNotFainted ==
    /\ [][DamageDealt => team[battle.my_mon].hp > 0]_vars
    /\ [][Confirmed => team'[battle'.my_mon].hp > 0]_vars


\* The battle has ended (wild fainted, capture, or defeat) and the loop has
\* not yet set it to None.
Resolved == battle.on /\ ~battle.active

\* An attack, capture, cursor or confirm key.
BattleIntent == KeyF \/ KeySpace \/ KeyUp \/ KeyDown \/ KeyReturn

\* C25: once a battle has ended, an attack, capture, cursor or confirm key
\* pressed before the loop drops the battle changes nothing: apricorns,
\* balls, team, caught species, the creatures and their hp, the active index
\* and the battle itself stay as they are.
C25_ResolvedIgnoresIntents ==
    [][(Resolved /\ BattleIntent)
         => UNCHANGED <<apricorns, balls, team, caught_species, mons,
                        active_index, battle>>]_vars

\* A battle ended by the wild creature's faint, with a ball at hand and
\* room in the team, so that an attack or a throw would have had an effect.
C25_Witness ==
    /\ Resolved /\ battle.message = "wild_fainted"
    /\ balls > 0 /\ team # <<>> /\ Len(team) < limits.max_team


\* A call of attack_round that goes past its two early returns.
AcceptedAttack ==
    /\ KeyF
    /\ battle.on /\ battle.state = "fight"
    /\ battle.cooldown = 0 /\ battle.my_mon # 0

\* ceil(max_hp / 2) of the battle's wild creature
AttacksNeeded == (mons[battle.wild].max_hp + 1) \div 2

\* C26: every accepted attack (cooldown elapsed, a team member at hand)
\* lowers the wild creature's hp by at least 2 or to 0, so a battle counts
\* at most ceil(max_hp / 2) accepted attacks and has ended once it has
\* counted that many.
C26_AttacksBounded ==
    /\ [][AcceptedAttack
            => mons'[battle.wild].hp <= Max(0, mons[battle.wild].hp - 2)]_vars
    /\ [](battle.on => battle.attacks <= AttacksNeeded)
    /\ [](battle.on /\ battle.attacks >= AttacksNeeded => ~battle.active)

\* A battle ended by the wild creature's faint at the last of the
\* ceil(max_hp / 2) attacks, each of the smallest damage.
C26_Witness ==
    /\ battle.on /\ ~battle.active
    /\ battle.attacks = AttacksNeeded
    /\ mons[battle.wild].hp = 0

====
